---- MODULE Spec2Model ----
(***************************************************************************)
(* Encrypted key-value store of the desktop application                    *)
(* (apps/desktop/src-tauri/src/secure_storage.rs, security.rs).            *)
(*                                                                         *)
(* Strings are run-length encoded: a string is a sequence of runs          *)
(* <<c, n>> (the character c repeated n >= 1 times, adjacent runs of       *)
(* different characters), so that a 255-byte key and an 8192-byte value    *)
(* are small values while byte length, null bytes, suffixes and path       *)
(* components are computed exactly.                                        *)
(*                                                                         *)
(* The file system is a set of directories and a map from file paths to    *)
(* contents; a path is the sequence of its component names from the root.  *)
(* Cryptography is symbolic: a hash is a tagged input, an AES-GCM          *)
(* ciphertext is the sealed triple (key, nonce, plaintext). The base64     *)
(* text of a nonce is computed character by character (a text is the       *)
(* sequence of its character codes); the base64 text of a ciphertext keeps *)
(* the sealed bytes and the effect a changed character has on the text.    *)
(***************************************************************************)
EXTENDS Integers, Sequences, FiniteSets, TLC

VARIABLES SECURE_STORAGE, fs, last, stored, threads

vars == <<SECURE_STORAGE, fs, last, stored, threads>>

----------------------------------------------------------------------------
(* Bounds of the model and constants of the program *)

MaxBatchLen == 2

MAX_STORAGE_VALUE_LENGTH == 8192
MAX_KEY_LENGTH == 255
MAX_BATCH_ITEMS == 100

----------------------------------------------------------------------------
(* Strings *)

NUL == "\\0"

Rep(c, n) == IF n = 0 THEN <<>> ELSE << <<c, n>> >>

push_str(a, b) ==
    IF a = <<>> THEN b
    ELSE IF b = <<>> THEN a
    ELSE IF a[Len(a)][1] = b[1][1]
         THEN SubSeq(a, 1, Len(a) - 1)
              \o << <<b[1][1], a[Len(a)][2] + b[1][2]>> >>
              \o Tail(b)
         ELSE a \o b

RECURSIVE Lit(_)
Lit(chars) ==
    IF chars = <<>> THEN <<>>
    ELSE push_str(Rep(chars[1], 1), Lit(Tail(chars)))

RECURSIVE len(_)
len(s) == IF s = <<>> THEN 0 ELSE s[1][2] + len(Tail(s))

is_empty(s) == s = <<>>

contains_nul(s) == \E i \in 1..Len(s) : s[i][1] = NUL

ENC_SUFFIX == Lit(<<".", "e", "n", "c">>)

\* format!("{}.enc", key)
enc_file_name(key) == push_str(key, ENC_SUFFIX)

\* str::ends_with(".enc")
ends_with_enc(name) ==
    /\ Len(name) >= 4
    /\ name[Len(name) - 3][1] = "."
    /\ SubSeq(name, Len(name) - 2, Len(name)) = Tail(ENC_SUFFIX)

\* str::strip_suffix(".enc"): <<key>> when the suffix is there, <<>> otherwise
strip_suffix_enc(name) ==
    IF ~ends_with_enc(name) THEN <<>>
    ELSE LET dot == name[Len(name) - 3]
             front == SubSeq(name, 1, Len(name) - 4)
         IN  << front \o Rep(".", dot[2] - 1) >>

----------------------------------------------------------------------------
(* Results *)

Ok(v) == [ok |-> TRUE, val |-> v]
Err(e) == [ok |-> FALSE, err |-> e]

\* a panic unwinds the call: it returns no value to its caller
Panic(msg) == [ok |-> FALSE, err |-> <<"panic", msg>>]
IsPanic(res) == ~res.ok /\ res.err[1] = "panic"

None == <<>>
Some(v) == <<v>>

Unit == "()"

\* impl fmt::Display for SecureStorageError, as used by e.to_string()
to_string(e) ==
    CASE e[1] = "EncryptionFailed" -> <<"Encryption failed", e[2]>>
      [] e[1] = "DecryptionFailed" -> <<"Decryption failed", e[2]>>
      [] e[1] = "InvalidFormat" -> <<"Invalid format", e[2]>>
      [] e[1] = "IoError" -> <<"IO error", e[2]>>
      [] e[1] = "SystemInfoError" -> <<"System info error", e[2]>>

NOT_INITIALIZED == <<"Secure storage not initialized">>
BATCH_TOO_LARGE == <<"Batch too large (max 100 items)">>

----------------------------------------------------------------------------
(* Validation (security.rs) *)

\* a validation that rejects an input of exactly max_length bytes
validate_user_input_off_by_one(input, field_name, max_length) ==
    IF len(input) >= max_length
    THEN Err(<<field_name, "exceeds maximum length">>)
    ELSE IF contains_nul(input)
    THEN Err(<<field_name, "contains null bytes">>)
    ELSE Ok(Unit)

validate_user_input(input, field_name, max_length) ==
    IF len(input) > max_length
    THEN Err(<<field_name, "exceeds maximum length">>)
    ELSE IF contains_nul(input)
    THEN Err(<<field_name, "contains null bytes">>)
    ELSE Ok(Unit)

\* the check at the head of store, retrieve, remove and exists
invalid_storage_key(key) == is_empty(key) \/ len(key) > MAX_KEY_LENGTH

INVALID_KEY == <<"InvalidFormat", "Invalid storage key">>

----------------------------------------------------------------------------
(* Paths and the file system *)

DOT == Rep(".", 1)
DOTDOT == Rep(".", 2)

\* the names between the separators of a path string; cur holds the runs of
\* the name being read
RECURSIVE components(_, _)
components(s, cur) ==
    LET done == IF cur = <<>> THEN <<>> ELSE <<cur>>
    IN  IF s = <<>> THEN done
        ELSE IF s[1][1] = "/" THEN done \o components(Tail(s), <<>>)
        ELSE components(Tail(s), Append(cur, s[1]))

is_absolute(s) == s # <<>> /\ s[1][1] = "/"

\* PathBuf::join: an absolute argument replaces the base
join(base, rel) ==
    IF is_absolute(rel) THEN components(rel, <<>>)
    ELSE base \o components(rel, <<>>)

ROOT == <<>>

parent(dir) == IF dir = ROOT THEN ROOT ELSE SubSeq(dir, 1, Len(dir) - 1)

\* the operating system's lookup of a directory path: <<dir>> or <<>>
RECURSIVE walk(_, _, _)
walk(dirs, cur, comps) ==
    IF comps = <<>> THEN <<cur>>
    ELSE IF comps[1] = DOT THEN walk(dirs, cur, Tail(comps))
    ELSE IF comps[1] = DOTDOT THEN walk(dirs, parent(cur), Tail(comps))
    ELSE IF Append(cur, comps[1]) \in dirs
         THEN walk(dirs, Append(cur, comps[1]), Tail(comps))
         ELSE <<>>

\* the entry a path names: its parent directory has to exist, the entry
\* itself need not. <<entry>> or <<>>
locate(f, path) ==
    IF path = <<>> THEN <<ROOT>>
    ELSE LET dir == walk(f.dirs, ROOT, SubSeq(path, 1, Len(path) - 1))
         IN  IF dir = <<>> THEN <<>> ELSE <<Append(dir[1], path[Len(path)])>>

is_prefix(p, q) == Len(p) <= Len(q) /\ SubSeq(q, 1, Len(p)) = p

\* Path::exists
path_exists(f, path) ==
    LET e == locate(f, path)
    IN  e # <<>> /\ (e[1] \in f.dirs \/ e[1] \in DOMAIN f.files)

IO_NOT_FOUND == <<"IoError", "NotFound">>
IO_IS_A_DIRECTORY == <<"IoError", "IsADirectory">>
IO_NOT_A_DIRECTORY == <<"IoError", "NotADirectory">>

\* fs::create_dir_all of a path without "." and ".." components
create_dir_all(f, path) ==
    LET prefixes == {SubSeq(path, 1, i) : i \in 0..Len(path)}
    IN  IF \E p \in prefixes : p \in DOMAIN f.files
        THEN [res |-> Err(IO_NOT_A_DIRECTORY), fs |-> f]
        ELSE [res |-> Ok(Unit), fs |-> [f EXCEPT !.dirs = @ \cup prefixes]]

\* fs::remove_dir_all
remove_dir_all(f, path) ==
    LET e == locate(f, path)
    IN  IF e = <<>> \/ e[1] \notin f.dirs
        THEN [res |-> Err(IO_NOT_FOUND), fs |-> f]
        ELSE LET keep == {p \in DOMAIN f.files : ~is_prefix(e[1], p)}
             IN  [res |-> Ok(Unit),
                  fs |-> [dirs |-> {d \in f.dirs : ~is_prefix(e[1], d)},
                          files |-> [p \in keep |-> f.files[p]]]]

\* File contents are tagged: <<"json", ciphertext, nonce, version>> is the
\* text of a record, EMPTY_FILE a file of no bytes, <<"overlay", head, old>>
\* the bytes of head followed by what old holds beyond them.
EMPTY_FILE == <<"">>

\* the bytes of the base64 text of the AES-GCM output (plaintext and tag)
AEAD_TAG_LENGTH == 16
sealed_text_len(text) == 4 * ((len(text[2][4]) + AEAD_TAG_LENGTH + 2) \div 3)

\* the bytes of {"ciphertext":"..","nonce":"..","version":1} without the texts
JSON_FRAME_LENGTH == 40

RECURSIVE content_len(_)
content_len(content) ==
    IF content = EMPTY_FILE THEN 0
    ELSE IF content[1] = "json"
    THEN JSON_FRAME_LENGTH + sealed_text_len(content[2]) + Len(content[3])
    ELSE IF content[1] = "overlay" THEN content_len(content[3])
    ELSE 1

\* the file after content was written at its start
overlay(content, old) ==
    IF content_len(content) >= content_len(old) THEN content
    ELSE <<"overlay", content, old>>

\* File::create: opens the file for writing, created or truncated
file_create(f, path) ==
    LET e == locate(f, path)
    IN  IF e = <<>> THEN [res |-> Err(IO_NOT_FOUND), fs |-> f]
        ELSE IF e[1] \in f.dirs THEN [res |-> Err(IO_IS_A_DIRECTORY), fs |-> f]
        ELSE [res |-> Ok(Unit),
              fs |-> [f EXCEPT !.files = (e[1] :> EMPTY_FILE) @@ @]]

\* write_all on the file File::create opened, from its start
write_all(f, path, content) ==
    LET e == locate(f, path)
    IN  [res |-> Ok(Unit),
         fs |-> [f EXCEPT !.files = (e[1] :> overlay(content, @[e[1]])) @@ @]]

\* fs::write: creates the file or replaces its whole content
fs_write(f, path, content) ==
    LET created == file_create(f, path)
    IN  IF ~created.res.ok THEN created
        ELSE write_all(created.fs, path, content)

\* a file content that is not UTF-8
invalid_utf8(content) ==
    /\ content[1] = "json"
    /\ \/ content[2][3] = "high_bit"
       \/ \E i \in DOMAIN content[3] : content[3][i] >= 128

IO_INVALID_DATA == <<"IoError", "InvalidData">>

\* fs::read_to_string
read_to_string(f, path) ==
    LET e == locate(f, path)
    IN  IF e = <<>> THEN Err(IO_NOT_FOUND)
        ELSE IF e[1] \in f.dirs THEN Err(IO_IS_A_DIRECTORY)
        ELSE IF e[1] \notin DOMAIN f.files THEN Err(IO_NOT_FOUND)
        ELSE IF invalid_utf8(f.files[e[1]]) THEN Err(IO_INVALID_DATA)
        ELSE Ok(f.files[e[1]])

\* fs::remove_file
remove_file(f, path) ==
    LET e == locate(f, path)
    IN  IF e = <<>> THEN [res |-> Err(IO_NOT_FOUND), fs |-> f]
        ELSE IF e[1] \in f.dirs THEN [res |-> Err(IO_IS_A_DIRECTORY), fs |-> f]
        ELSE IF e[1] \notin DOMAIN f.files THEN [res |-> Err(IO_NOT_FOUND), fs |-> f]
        ELSE [res |-> Ok(Unit),
              fs |-> [f EXCEPT !.files =
                         [p \in DOMAIN f.files \ {e[1]} |-> f.files[p]]]]

\* fs::read_dir: the names of the entries of a directory
read_dir(f, path) ==
    LET e == locate(f, path)
    IN  IF e = <<>> \/ e[1] \notin f.dirs THEN Err(IO_NOT_FOUND)
        ELSE Ok({p[Len(p)] : p \in {q \in (f.dirs \cup DOMAIN f.files) :
                                      q # ROOT /\ parent(q) = e[1]}})

----------------------------------------------------------------------------
(* Encodings and the cipher *)

\* general_purpose::STANDARD.encode / decode of the sealed bytes. The third
\* component is the effect of a changed character of the text: "" (none),
\* "symbol" (another symbol of the alphabet), "not_symbol" (a printable
\* character outside the alphabet), "json_break" (a quote, a backslash or a
\* control character), "high_bit" (a byte that is not UTF-8)
b64_encode(bytes) == <<"base64", bytes, "">>
b64_decode(text) ==
    IF text[1] # "base64" THEN Err("base64")
    ELSE IF text[3] = "" THEN Ok(text[2])
    ELSE IF text[3] = "symbol" THEN Ok(<<"altered", text[2]>>)
    ELSE Err("base64")

B64_PAD == 61

\* the character code of a 6-bit value: A-Z, a-z, 0-9, +, /
b64_symbol(v) ==
    IF v < 26 THEN 65 + v
    ELSE IF v < 52 THEN 71 + v
    ELSE IF v < 62 THEN v - 4
    ELSE IF v = 62 THEN 43
    ELSE 47

\* the 6-bit value of a character code, -1 outside the alphabet
b64_value(c) ==
    IF c >= 65 /\ c <= 90 THEN c - 65
    ELSE IF c >= 97 /\ c <= 122 THEN c - 71
    ELSE IF c >= 48 /\ c <= 57 THEN c + 4
    ELSE IF c = 43 THEN 62
    ELSE IF c = 47 THEN 63
    ELSE -1

\* STANDARD.encode of a sequence of bytes: the text with its padding
RECURSIVE b64_encode_bytes(_)
b64_encode_bytes(bytes) ==
    IF bytes = <<>> THEN <<>>
    ELSE IF Len(bytes) = 1
    THEN <<b64_symbol(bytes[1] \div 4), b64_symbol((bytes[1] % 4) * 16),
           B64_PAD, B64_PAD>>
    ELSE IF Len(bytes) = 2
    THEN <<b64_symbol(bytes[1] \div 4),
           b64_symbol((bytes[1] % 4) * 16 + bytes[2] \div 16),
           b64_symbol((bytes[2] % 16) * 4), B64_PAD>>
    ELSE <<b64_symbol(bytes[1] \div 4),
           b64_symbol((bytes[1] % 4) * 16 + bytes[2] \div 16),
           b64_symbol((bytes[2] % 16) * 4 + bytes[3] \div 64),
           b64_symbol(bytes[3] % 64)>>
         \o b64_encode_bytes(SubSeq(bytes, 4, Len(bytes)))

\* STANDARD.decode of the groups of four characters: padding only in the
\* last group, and no bits set under it
RECURSIVE b64_decode_quads(_)
b64_decode_quads(text) ==
    IF text = <<>> THEN Ok(<<>>)
    ELSE LET v1 == b64_value(text[1])
             v2 == b64_value(text[2])
             v3 == b64_value(text[3])
             v4 == b64_value(text[4])
             is_last == Len(text) = 4
         IN  IF v1 < 0 \/ v2 < 0 THEN Err("base64")
             ELSE IF text[3] = B64_PAD
             THEN IF is_last /\ text[4] = B64_PAD /\ v2 % 16 = 0
                  THEN Ok(<<v1 * 4 + v2 \div 16>>)
                  ELSE Err("base64")
             ELSE IF v3 < 0 THEN Err("base64")
             ELSE IF text[4] = B64_PAD
             THEN IF is_last /\ v3 % 4 = 0
                  THEN Ok(<<v1 * 4 + v2 \div 16, (v2 % 16) * 16 + v3 \div 4>>)
                  ELSE Err("base64")
             ELSE IF v4 < 0 THEN Err("base64")
             ELSE LET rest == b64_decode_quads(SubSeq(text, 5, Len(text)))
                  IN  IF ~rest.ok THEN rest
                      ELSE Ok(<<v1 * 4 + v2 \div 16,
                                (v2 % 16) * 16 + v3 \div 4,
                                (v3 % 4) * 64 + v4>> \o rest.val)

b64_decode_bytes(text) ==
    IF Len(text) % 4 # 0 THEN Err("base64") ELSE b64_decode_quads(text)

\* a character a JSON string cannot hold as it is
json_breaking(c) == c < 32 \/ c = 34 \/ c = 92

\* serde_json::to_string / from_str of EncryptedData
to_json(encrypted) ==
    <<"json", encrypted.ciphertext, encrypted.nonce, encrypted.version>>
from_json(text) ==
    IF /\ text[1] = "json"
       /\ Len(text) = 4
       /\ text[2][3] # "json_break"
       /\ \A i \in DOMAIN text[3] : ~json_breaking(text[3][i])
    THEN Ok([ciphertext |-> text[2], nonce |-> text[3], version |-> text[4]])
    ELSE Err("json")

Sha256_digest(bytes) == <<"sha256", bytes>>

\* Aes256Gcm: the ciphertext with its tag opens under the key and the nonce
\* that sealed it, and under no other
aead_encrypt(key, nonce, plaintext) == <<"aes256gcm", key, nonce, plaintext>>
aead_decrypt(key, nonce, ciphertext) ==
    IF ciphertext[1] = "aes256gcm" /\ ciphertext[2] = key /\ ciphertext[3] = nonce
    THEN Ok(ciphertext[4])
    ELSE Err("aead::Error")

----------------------------------------------------------------------------
(* SecureStorageManager *)

SECURE_STORAGE_DIR ==
    Lit(<<"s", "e", "c", "u", "r", "e", "_", "s", "t", "o", "r", "a", "g", "e">>)

KEY_SALT ==
    Lit(<<"r", "y", "u", "_", "s", "e", "c", "u", "r", "e", "_",
          "s", "t", "o", "r", "a", "g", "e", "_", "v", "1">>)

\* the host name and the user name the platform lookups return
HOSTNAME == Lit(<<"h", "o", "s", "t">>)
USERNAME == Lit(<<"u", "s", "e", "r">>)

derive_master_key(app_name, hostname, username) ==
    Sha256_digest(
        push_str(push_str(push_str(app_name, hostname), username), KEY_SALT))

\* new that derives the key from the data directory as well
new_key_of_dir(f, app_name, app_data_dir) ==
    LET storage_dir == join(app_data_dir, SECURE_STORAGE_DIR)
        made == create_dir_all(f, storage_dir)
    IN  IF ~made.res.ok THEN [res |-> made.res, fs |-> made.fs]
        ELSE [res |-> Ok([master_key |->
                              derive_master_key(push_str(app_name, app_data_dir[1]),
                                                HOSTNAME, USERNAME),
                          storage_dir |-> storage_dir]),
              fs |-> made.fs]

\* SecureStorageManager::new: the manager and the file system it leaves
new(f, app_name, app_data_dir) ==
    LET storage_dir == join(app_data_dir, SECURE_STORAGE_DIR)
        made == create_dir_all(f, storage_dir)
    IN  IF ~made.res.ok THEN [res |-> made.res, fs |-> made.fs]
        ELSE [res |-> Ok([master_key |->
                              derive_master_key(app_name, HOSTNAME, USERNAME),
                          storage_dir |-> storage_dir]),
              fs |-> made.fs]

\* encrypt that takes no draw: every record under the one nonce of zeros
encrypt_fixed_nonce(self, data, nonce_bytes) ==
    LET zeros == [i \in DOMAIN nonce_bytes |-> 0]
    IN  Ok([ciphertext |-> b64_encode(aead_encrypt(self.master_key, zeros, data)),
            nonce |-> b64_encode_bytes(zeros),
            version |-> 1])

\* encrypt that seals under one draw and records another
encrypt_second_draw(self, data, nonce_bytes) ==
    LET second == [i \in DOMAIN nonce_bytes |-> (nonce_bytes[i] + 1) % 256]
    IN  Ok([ciphertext |-> b64_encode(aead_encrypt(self.master_key, nonce_bytes, data)),
            nonce |-> b64_encode_bytes(second),
            version |-> 1])

\* encrypt, with the nonce generate_nonce drew
encrypt(self, data, nonce_bytes) ==
    Ok([ciphertext |-> b64_encode(aead_encrypt(self.master_key, nonce_bytes, data)),
        nonce |-> b64_encode_bytes(nonce_bytes),
        version |-> 1])

\* Nonce::from_slice asserts the length of the slice
NONCE_LENGTH == 12

decrypt(self, encrypted_data) ==
    LET ciphertext == b64_decode(encrypted_data.ciphertext)
        nonce_bytes == b64_decode_bytes(encrypted_data.nonce)
    IN  IF ~ciphertext.ok
        THEN Err(<<"DecryptionFailed", "Invalid base64 in ciphertext">>)
        ELSE IF ~nonce_bytes.ok
        THEN Err(<<"DecryptionFailed", "Invalid base64 in nonce">>)
        ELSE IF Len(nonce_bytes.val) # NONCE_LENGTH
        THEN Panic("assertion failed: slice.len() == N")
        ELSE LET plaintext ==
                     aead_decrypt(self.master_key, nonce_bytes.val, ciphertext.val)
             IN  IF ~plaintext.ok
                 THEN Err(<<"DecryptionFailed", "Decryption failed">>)
                 ELSE Ok(plaintext.val)

\* Each operation yields its result, the file system it leaves and the steps
\* it took, in order; i tags the steps with the item they belong to.
Step(i, name) == <<i, name>>

Outcome(res, f, trace) == [res |-> res, fs |-> f, trace |-> trace]

file_path(self, key) == join(self.storage_dir, enc_file_name(key))

\* a store that checks the key only after it has written the record
store_key_checked_late(self, f, key, data, nonce_bytes, i) ==
    LET encrypted == encrypt(self, data, nonce_bytes)
        json == to_json(encrypted.val)
        written == fs_write(f, file_path(self, key), json)
        t == <<Step(i, "encrypt"), Step(i, "to_json"), Step(i, "fs_write"),
               Step(i, "key_check")>>
    IN  IF invalid_storage_key(key) THEN Outcome(Err(INVALID_KEY), written.fs, t)
        ELSE Outcome(written.res, written.fs, t)

store(self, f, key, data, nonce_bytes, i) ==
    IF invalid_storage_key(key)
    THEN Outcome(Err(INVALID_KEY), f, <<Step(i, "key_check")>>)
    ELSE LET encrypted == encrypt(self, data, nonce_bytes)
             json == to_json(encrypted.val)
             written == fs_write(f, file_path(self, key), json)
         IN  Outcome(written.res, written.fs,
                     <<Step(i, "key_check"), Step(i, "encrypt"),
                       Step(i, "to_json"), Step(i, "fs_write")>>)

\* retrieve once the file was found to exist: read, deserialize, decrypt
read_record(self, f, key, i) ==
    LET json == read_to_string(f, file_path(self, key))
        t2 == <<Step(i, "key_check"), Step(i, "fs_exists"), Step(i, "fs_read")>>
    IN  IF ~json.ok THEN Outcome(json, f, t2)
        ELSE LET encrypted == from_json(json.val)
                 t3 == Append(t2, Step(i, "from_json"))
             IN  IF ~encrypted.ok
                 THEN Outcome(Err(<<"InvalidFormat", "JSON deserialization failed">>),
                              f, t3)
                 ELSE LET decrypted == decrypt(self, encrypted.val)
                          t4 == Append(t3, Step(i, "decrypt"))
                      IN  IF ~decrypted.ok THEN Outcome(decrypted, f, t4)
                          ELSE Outcome(Ok(Some(decrypted.val)), f, t4)

retrieve(self, f, key, i) ==
    IF invalid_storage_key(key)
    THEN Outcome(Err(INVALID_KEY), f, <<Step(i, "key_check")>>)
    ELSE IF ~path_exists(f, file_path(self, key))
    THEN Outcome(Ok(None), f, <<Step(i, "key_check"), Step(i, "fs_exists")>>)
    ELSE read_record(self, f, key, i)

\* a remove that reports the record but leaves its file in place
remove_keeps_file(self, f, key, i) ==
    IF invalid_storage_key(key)
    THEN Outcome(Err(INVALID_KEY), f, <<Step(i, "key_check")>>)
    ELSE Outcome(Ok(path_exists(f, file_path(self, key))), f,
                 <<Step(i, "key_check"), Step(i, "fs_exists")>>)

remove(self, f, key, i) ==
    IF invalid_storage_key(key)
    THEN Outcome(Err(INVALID_KEY), f, <<Step(i, "key_check")>>)
    ELSE IF path_exists(f, file_path(self, key))
    THEN LET removed == remove_file(f, file_path(self, key))
             t == <<Step(i, "key_check"), Step(i, "fs_exists"), Step(i, "fs_remove")>>
         IN  IF ~removed.res.ok THEN Outcome(removed.res, removed.fs, t)
             ELSE Outcome(Ok(TRUE), removed.fs, t)
    ELSE Outcome(Ok(FALSE), f, <<Step(i, "key_check"), Step(i, "fs_exists")>>)

exists(self, f, key, i) ==
    IF invalid_storage_key(key)
    THEN Outcome(Err(INVALID_KEY), f, <<Step(i, "key_check")>>)
    ELSE Outcome(Ok(path_exists(f, file_path(self, key))), f,
                 <<Step(i, "key_check"), Step(i, "fs_exists")>>)

\* the keys of the entries named <key>.enc, in the order the directory
\* yields them (order is a sequence of the entry names without repetition)
RECURSIVE keys_of(_)
keys_of(order) ==
    IF order = <<>> THEN <<>>
    ELSE strip_suffix_enc(order[1]) \o keys_of(Tail(order))

Orders(names) ==
    {o \in [1..Cardinality(names) -> names] :
        \A a, b \in 1..Cardinality(names) : a # b => o[a] # o[b]}

\* a list_keys that hands on the error of read_dir
list_keys_propagating(self, f, order) ==
    LET entries == read_dir(f, self.storage_dir)
    IN  IF entries.ok
        THEN Outcome(Ok(keys_of(order)), f, <<Step(1, "fs_read_dir")>>)
        ELSE Outcome(entries, f, <<Step(1, "fs_read_dir")>>)

list_keys(self, f, order) ==
    LET entries == read_dir(f, self.storage_dir)
    IN  IF entries.ok
        THEN Outcome(Ok(keys_of(order)), f, <<Step(1, "fs_read_dir")>>)
        ELSE Outcome(Ok(<<>>), f, <<Step(1, "fs_read_dir")>>)

clear_all(self, f) ==
    IF path_exists(f, self.storage_dir)
    THEN LET removed == remove_dir_all(f, self.storage_dir)
             t1 == <<Step(1, "fs_exists"), Step(1, "fs_remove_dir_all")>>
         IN  IF ~removed.res.ok THEN Outcome(removed.res, removed.fs, t1)
             ELSE LET made == create_dir_all(removed.fs, self.storage_dir)
                  IN  Outcome(made.res, made.fs,
                              Append(t1, Step(1, "fs_create_dir_all")))
    ELSE Outcome(Ok(Unit), f, <<Step(1, "fs_exists")>>)

----------------------------------------------------------------------------
(* The global instance and the commands of the boundary *)

\* SECURE_STORAGE is None or Some(manager)
get_secure_storage(cell) == cell

\* .map_err(|e| e.to_string())
map_err(res) ==
    IF res.ok \/ IsPanic(res) THEN res ELSE Err(to_string(res.err))

\* an initialization that installs the new manager over the one in place
init_secure_storage_replacing(cell, f, app_name, app_data_dir) ==
    LET manager == new(f, app_name, app_data_dir)
    IN  IF ~manager.res.ok
        THEN [res |-> manager.res, fs |-> manager.fs, cell |-> cell]
        ELSE [res |-> IF cell # None
                      THEN Err(<<"SystemInfoError", "Secure storage already initialized">>)
                      ELSE Ok(Unit),
              fs |-> manager.fs, cell |-> Some(manager.res.val)]

init_secure_storage(cell, f, app_name, app_data_dir) ==
    LET manager == new(f, app_name, app_data_dir)
    IN  IF ~manager.res.ok
        THEN [res |-> manager.res, fs |-> manager.fs, cell |-> cell]
        ELSE IF cell # None
        THEN [res |-> Err(<<"SystemInfoError", "Secure storage already initialized">>),
              fs |-> manager.fs, cell |-> cell]
        ELSE [res |-> Ok(Unit), fs |-> manager.fs, cell |-> Some(manager.res.val)]

KEY_FIELD == "storage key"
VALUE_FIELD == "storage value"

\* a store command that looks for the manager before it validates
secure_storage_store_init_first(cell, f, key, value, nonce_bytes) ==
    LET vk == validate_user_input(key, KEY_FIELD, MAX_KEY_LENGTH)
        vv == validate_user_input(value, VALUE_FIELD, MAX_STORAGE_VALUE_LENGTH)
        storage == get_secure_storage(cell)
        t1 == <<Step(1, "get_secure_storage")>>
        t2 == Append(t1, Step(1, "validate_key"))
        t3 == Append(t2, Step(1, "validate_value"))
    IN  IF storage = None THEN Outcome(Err(NOT_INITIALIZED), f, t1)
        ELSE IF ~vk.ok THEN Outcome(Err(<<"Invalid storage key">> \o vk.err), f, t2)
        ELSE IF ~vv.ok THEN Outcome(Err(<<"Invalid storage value">> \o vv.err), f, t3)
        ELSE LET r == store(storage[1], f, key, value, nonce_bytes, 1)
             IN  Outcome(map_err(r.res), r.fs, t3 \o r.trace)

secure_storage_store(cell, f, key, value, nonce_bytes) ==
    LET vk == validate_user_input(key, KEY_FIELD, MAX_KEY_LENGTH)
        vv == validate_user_input(value, VALUE_FIELD, MAX_STORAGE_VALUE_LENGTH)
        storage == get_secure_storage(cell)
        t1 == <<Step(1, "validate_key")>>
        t2 == Append(t1, Step(1, "validate_value"))
        t3 == Append(t2, Step(1, "get_secure_storage"))
    IN  IF ~vk.ok THEN Outcome(Err(<<"Invalid storage key">> \o vk.err), f, t1)
        ELSE IF ~vv.ok THEN Outcome(Err(<<"Invalid storage value">> \o vv.err), f, t2)
        ELSE IF storage = None THEN Outcome(Err(NOT_INITIALIZED), f, t3)
        ELSE LET r == store(storage[1], f, key, value, nonce_bytes, 1)
             IN  Outcome(map_err(r.res), r.fs, t3 \o r.trace)

\* the shape shared by the commands that take one key
KeyCommand(cell, f, key, r) ==
    LET vk == validate_user_input(key, KEY_FIELD, MAX_KEY_LENGTH)
        storage == get_secure_storage(cell)
        t1 == <<Step(1, "validate_key")>>
        t2 == Append(t1, Step(1, "get_secure_storage"))
    IN  IF ~vk.ok THEN Outcome(Err(<<"Invalid storage key">> \o vk.err), f, t1)
        ELSE IF storage = None THEN Outcome(Err(NOT_INITIALIZED), f, t2)
        ELSE Outcome(map_err(r.res), r.fs, t2 \o r.trace)

secure_storage_retrieve(cell, f, key) ==
    KeyCommand(cell, f, key, retrieve(cell[1], f, key, 1))

secure_storage_remove_encrypted(cell, f, key) ==
    KeyCommand(cell, f, key, remove(cell[1], f, key, 1))

secure_storage_exists(cell, f, key) ==
    KeyCommand(cell, f, key, exists(cell[1], f, key, 1))

\* the loop of secure_storage_store_batch from item i on
RECURSIVE store_batch_loop(_, _, _, _, _, _)
store_batch_loop(storage, f, items, nonces, i, trace) ==
    IF i > Len(items) THEN Outcome(Ok(Unit), f, trace)
    ELSE LET key == items[i][1]
             value == items[i][2]
             vk == validate_user_input(key, KEY_FIELD, MAX_KEY_LENGTH)
             vv == validate_user_input(value, VALUE_FIELD, MAX_STORAGE_VALUE_LENGTH)
             t1 == Append(trace, Step(i, "validate_key"))
             t2 == Append(t1, Step(i, "validate_value"))
         IN  IF ~vk.ok
             THEN Outcome(Err(<<"Invalid storage key", key>> \o vk.err), f, t1)
             ELSE IF ~vv.ok
             THEN Outcome(Err(<<"Invalid storage value for key", key>> \o vv.err), f, t2)
             ELSE LET r == store(storage, f, key, value, nonces[i], i)
                  IN  IF ~r.res.ok
                      THEN Outcome(Err(<<"Failed to store key", key>>
                                       \o to_string(r.res.err)),
                                   r.fs, t2 \o r.trace)
                      ELSE store_batch_loop(storage, r.fs, items, nonces, i + 1,
                                            t2 \o r.trace)

\* a batch store that undoes the items it wrote when a later item fails
secure_storage_store_batch_rollback(cell, f, items, nonces) ==
    LET storage == get_secure_storage(cell)
        t1 == <<Step(0, "batch_size")>>
        t2 == Append(t1, Step(0, "get_secure_storage"))
    IN  IF Len(items) > MAX_BATCH_ITEMS THEN Outcome(Err(BATCH_TOO_LARGE), f, t1)
        ELSE IF storage = None THEN Outcome(Err(NOT_INITIALIZED), f, t2)
        ELSE LET out == store_batch_loop(storage[1], f, items, nonces, 1, t2)
             IN  IF out.res.ok THEN out ELSE Outcome(out.res, f, out.trace)

secure_storage_store_batch(cell, f, items, nonces) ==
    LET storage == get_secure_storage(cell)
        t1 == <<Step(0, "batch_size")>>
        t2 == Append(t1, Step(0, "get_secure_storage"))
    IN  IF Len(items) > MAX_BATCH_ITEMS THEN Outcome(Err(BATCH_TOO_LARGE), f, t1)
        ELSE IF storage = None THEN Outcome(Err(NOT_INITIALIZED), f, t2)
        ELSE store_batch_loop(storage[1], f, items, nonces, 1, t2)

\* an insert that leaves out the keys without a record
insert_found_only(map, key, value) ==
    IF value = None THEN map ELSE (key :> value) @@ map

\* HashMap::insert
insert(map, key, value) == (key :> value) @@ map

\* the loop of secure_storage_retrieve_batch from key i on
RECURSIVE retrieve_batch_loop(_, _, _, _, _, _)
retrieve_batch_loop(storage, f, keys, results, i, trace) ==
    IF i > Len(keys) THEN Outcome(Ok(results), f, trace)
    ELSE LET key == keys[i]
             vk == validate_user_input(key, KEY_FIELD, MAX_KEY_LENGTH)
             t1 == Append(trace, Step(i, "validate_key"))
         IN  IF ~vk.ok
             THEN Outcome(Err(<<"Invalid storage key", key>> \o vk.err), f, t1)
             ELSE LET r == retrieve(storage, f, key, i)
                  IN  IF IsPanic(r.res) THEN Outcome(r.res, r.fs, t1 \o r.trace)
                      ELSE IF ~r.res.ok
                      THEN Outcome(Err(<<"Failed to retrieve key", key>>
                                       \o to_string(r.res.err)),
                                   r.fs, t1 \o r.trace)
                      ELSE retrieve_batch_loop(storage, r.fs, keys,
                                               insert(results, key, r.res.val),
                                               i + 1, t1 \o r.trace)

secure_storage_retrieve_batch(cell, f, keys) ==
    LET storage == get_secure_storage(cell)
        t1 == <<Step(0, "batch_size")>>
        t2 == Append(t1, Step(0, "get_secure_storage"))
    IN  IF Len(keys) > MAX_BATCH_ITEMS THEN Outcome(Err(BATCH_TOO_LARGE), f, t1)
        ELSE IF storage = None THEN Outcome(Err(NOT_INITIALIZED), f, t2)
        ELSE retrieve_batch_loop(storage[1], f, keys, <<>>, 1, t2)

secure_storage_list_keys(cell, f, order) ==
    LET storage == get_secure_storage(cell)
        t1 == <<Step(1, "get_secure_storage")>>
    IN  IF storage = None THEN Outcome(Err(NOT_INITIALIZED), f, t1)
        ELSE LET r == list_keys(storage[1], f, order)
             IN  Outcome(map_err(r.res), r.fs, t1 \o r.trace)

secure_storage_clear_all(cell, f) ==
    LET storage == get_secure_storage(cell)
        t1 == <<Step(1, "get_secure_storage")>>
    IN  IF storage = None THEN Outcome(Err(NOT_INITIALIZED), f, t1)
        ELSE LET r == clear_all(storage[1], f)
             IN  Outcome(map_err(r.res), r.fs, t1 \o r.trace)

----------------------------------------------------------------------------
(* The inputs the callers draw from *)

K_EMPTY == <<>>
K_MAX == Rep("k", MAX_KEY_LENGTH)
K_PARENT == Lit(<<".", ".", "/", "a">>)
K_NESTED == Lit(<<"a", "/", "b">>)
K_OVER == Rep("k", MAX_KEY_LENGTH + 1)
K_NUL == Lit(<<"a", NUL>>)

Keys == {K_EMPTY, K_MAX, K_PARENT, K_NESTED, K_OVER, K_NUL}

V_X == Lit(<<"x">>)
V_MAX == Rep("v", MAX_STORAGE_VALUE_LENGTH)
V_OVER == Rep("v", MAX_STORAGE_VALUE_LENGTH + 1)

Values == {V_X, V_MAX, V_OVER}

\* the arguments of the single stores and of the commands that take one key
StoreArgs ==
    ({K_MAX} \X Values)
    \cup {<<K_PARENT, V_X>>, <<K_NUL, V_X>>, <<K_OVER, V_X>>}
    \cup ({K_EMPTY} \X {V_X, V_OVER})

ProbeKeys == {K_MAX, K_PARENT, K_EMPTY, K_OVER}

\* the 12-byte values the random source yields
NONCE_A == <<0, 0, 0, 0, 0, 0, 0, 0, 0, 0, 0, 61>>
NONCE_B == <<20, 40, 60, 80, 100, 120, 140, 160, 180, 200, 220, 240>>

Nonces == {NONCE_A, NONCE_B}

\* the draws of one batch, one for each item
NonceDraws == {[i \in 1..MaxBatchLen |-> IF i % 2 = 1 THEN NONCE_A ELSE NONCE_B]}

\* the package name and the app data directory that run() passes at setup,
\* and the arguments of another caller of init
SetupArgs == <<Lit(<<"r", "y", "u">>), <<Lit(<<"d", "1">>)>> >>
OtherArgs == <<Lit(<<"o">>), <<Lit(<<"d", "2">>)>> >>

InitArgs == {SetupArgs, OtherArgs}

SeqsUpTo(S, n) == UNION {[1..m -> S] : m \in 0..n}

BatchItems ==
    {<<K_MAX, V_X>>, <<K_EMPTY, V_X>>, <<K_NESTED, V_X>>}

OversizedBatch == [i \in 1..(MAX_BATCH_ITEMS + 1) |-> <<K_MAX, V_X>>]

Batches == SeqsUpTo(BatchItems, MaxBatchLen) \cup {OversizedBatch}

BatchKeys == {K_MAX, K_PARENT, K_EMPTY}

OversizedKeyList == [i \in 1..(MAX_BATCH_ITEMS + 1) |-> K_MAX]

KeyLists == SeqsUpTo(BatchKeys, MaxBatchLen) \cup {OversizedKeyList}

----------------------------------------------------------------------------
(* The state machine: one action per call of the boundary.                 *)
(* last is the latest call (operation, arguments, result, steps); stored   *)
(* is the history the callers can keep: for each key the value of its      *)
(* latest store that returned Ok, if no remove of the key and no clear_all *)
(* returned Ok since. threads holds the calls in flight when commands run  *)
(* concurrently: here each command runs from its call to its return with   *)
(* no other in between, and every thread is idle.                          *)

Initialized == SECURE_STORAGE # None

\* the tasks of the async runtime that run the commands
Threads == {1, 2}

IdleThread ==
    [pc |-> "idle", op |-> "", key |-> <<>>, value |-> <<>>, nonce |-> <<>>,
     live |-> FALSE, res |-> Ok(Unit), calls |-> 0]

Call(op, args, out) ==
    [op |-> op, args |-> args, res |-> out.res, trace |-> out.trace]

\* the items of a batch whose store returned Ok: all of them when the batch
\* succeeded, those before the item of the last step otherwise
committed(items, out) ==
    IF out.res.ok THEN Len(items)
    ELSE IF out.trace[Len(out.trace)][1] = 0 THEN 0
    ELSE out.trace[Len(out.trace)][1] - 1

RECURSIVE record_stores(_, _, _)
record_stores(hist, items, n) ==
    IF n = 0 THEN hist
    ELSE [record_stores(hist, items, n - 1) EXCEPT ![items[n][1]] = Some(items[n][2])]

Init ==
    /\ SECURE_STORAGE = None
    /\ fs = [dirs |-> {ROOT}, files |-> <<>>]
    /\ last = [op |-> "start", args |-> <<>>, res |-> Ok(Unit), trace |-> <<>>]
    /\ stored = [k \in Keys |-> None]
    /\ threads = [t \in Threads |-> IdleThread]

\* the first init is the one of run()
InitStorage(app_name, app_data_dir) ==
    LET out == init_secure_storage(SECURE_STORAGE, fs, app_name, app_data_dir)
    IN  /\ Initialized \/ <<app_name, app_data_dir>> = SetupArgs
        /\ SECURE_STORAGE' = out.cell
        /\ fs' = out.fs
        /\ last' = [op |-> "init", args |-> <<app_name, app_data_dir>>,
                    res |-> out.res, trace |-> <<>>]
        /\ UNCHANGED <<stored, threads>>

Store(key, value, nonce_bytes) ==
    LET out == secure_storage_store(SECURE_STORAGE, fs, key, value, nonce_bytes)
    IN  /\ fs' = out.fs
        /\ last' = Call("store", <<key, value>>, out)
        /\ stored' = IF out.res.ok THEN [stored EXCEPT ![key] = Some(value)]
                     ELSE stored
        /\ UNCHANGED <<SECURE_STORAGE, threads>>

Retrieve(key) ==
    LET out == secure_storage_retrieve(SECURE_STORAGE, fs, key)
    IN  /\ fs' = out.fs
        /\ last' = Call("retrieve", <<key>>, out)
        /\ UNCHANGED <<SECURE_STORAGE, stored, threads>>

Remove(key) ==
    LET out == secure_storage_remove_encrypted(SECURE_STORAGE, fs, key)
    IN  /\ fs' = out.fs
        /\ last' = Call("remove", <<key>>, out)
        /\ stored' = IF out.res.ok THEN [stored EXCEPT ![key] = None] ELSE stored
        /\ UNCHANGED <<SECURE_STORAGE, threads>>

Exists(key) ==
    LET out == secure_storage_exists(SECURE_STORAGE, fs, key)
    IN  /\ fs' = out.fs
        /\ last' = Call("exists", <<key>>, out)
        /\ UNCHANGED <<SECURE_STORAGE, stored, threads>>

StoreBatch(items, nonces) ==
    LET out == secure_storage_store_batch(SECURE_STORAGE, fs, items, nonces)
    IN  /\ fs' = out.fs
        /\ last' = Call("store_batch", <<items>>, out)
        /\ stored' = record_stores(stored, items, committed(items, out))
        /\ UNCHANGED <<SECURE_STORAGE, threads>>

RetrieveBatch(keys) ==
    LET out == secure_storage_retrieve_batch(SECURE_STORAGE, fs, keys)
    IN  /\ fs' = out.fs
        /\ last' = Call("retrieve_batch", <<keys>>, out)
        /\ UNCHANGED <<SECURE_STORAGE, stored, threads>>

\* the entry names read_dir yields for the storage directory of the manager
Entries ==
    IF SECURE_STORAGE = None THEN {}
    ELSE LET entries == read_dir(fs, SECURE_STORAGE[1].storage_dir)
         IN  IF entries.ok THEN entries.val ELSE {}

ListKeys(order) ==
    LET out == secure_storage_list_keys(SECURE_STORAGE, fs, order)
    IN  /\ fs' = out.fs
        /\ last' = Call("list_keys", <<>>, out)
        /\ UNCHANGED <<SECURE_STORAGE, stored, threads>>

ClearAll ==
    LET out == secure_storage_clear_all(SECURE_STORAGE, fs)
    IN  /\ fs' = out.fs
        /\ last' = Call("clear_all", <<>>, out)
        /\ stored' = IF out.res.ok THEN [k \in Keys |-> None] ELSE stored
        /\ UNCHANGED <<SECURE_STORAGE, threads>>

Next ==
    \/ \E a \in InitArgs : InitStorage(a[1], a[2])
    \/ \E a \in StoreArgs, nonce_bytes \in Nonces : Store(a[1], a[2], nonce_bytes)
    \/ \E key \in ProbeKeys : Retrieve(key)
    \/ \E key \in ProbeKeys : Remove(key)
    \/ \E key \in ProbeKeys : Exists(key)
    \/ \E items \in Batches, nonces \in NonceDraws : StoreBatch(items, nonces)
    \/ \E keys \in KeyLists : RetrieveBatch(keys)
    \/ \E order \in Orders(Entries) : ListKeys(order)
    \/ ClearAll

Spec == Init /\ [][Next]_vars

----------------------------------------------------------------------------
(* The store with its environment: other processes of the machine delete   *)
(* the storage directory, create files in it and change the bytes of a     *)
(* record file, between the calls of the commands.                         *)

StorageDir == SECURE_STORAGE[1].storage_dir

EnvCall(op, args) == [op |-> op, args |-> args, res |-> Ok(Unit), trace |-> <<>>]

\* c with bit b flipped
flip_bit(c, b) == IF (c \div (2 ^ b)) % 2 = 1 THEN c - 2 ^ b ELSE c + 2 ^ b

\* a record file as encrypt and store left it
IsRecord(content) == content[1] = "json"
IsIntact(content) ==
    /\ IsRecord(content)
    /\ content[2][3] = ""
    /\ content[3] = b64_encode_bytes(content[2][2][3])

\* the file of a key that passes the key check, <<path>> or <<>>
RecordFile(key) ==
    IF ~Initialized \/ invalid_storage_key(key) THEN <<>>
    ELSE LET e == locate(fs, file_path(SECURE_STORAGE[1], key))
         IN  IF e # <<>> /\ e[1] \in DOMAIN fs.files THEN e ELSE <<>>

\* rm -r <storage directory>
DeleteStorageDir ==
    /\ Initialized
    /\ StorageDir \in fs.dirs
    /\ fs' = remove_dir_all(fs, StorageDir).fs
    /\ last' = EnvCall("env_delete_dir", <<>>)
    /\ UNCHANGED <<SECURE_STORAGE, stored, threads>>

\* the names and the content of the files of other programs
NOTES_TXT == Lit(<<"n", "o", "t", "e", "s", ".", "t", "x", "t">>)
B_ENC == Lit(<<"b", ".", "e", "n", "c">>)
ForeignNames == {NOTES_TXT, B_ENC}
FOREIGN_CONTENT == <<"foreign">>

DropFile(name) ==
    /\ Initialized
    /\ StorageDir \in fs.dirs
    /\ Append(StorageDir, name) \notin DOMAIN fs.files
    /\ fs' = fs_write(fs, Append(StorageDir, name), FOREIGN_CONTENT).fs
    /\ last' = EnvCall("env_drop_file", <<name>>)
    /\ UNCHANGED <<SECURE_STORAGE, stored, threads>>

\* one bit of the i-th character of the stored nonce changes
TamperNonce(key, i, b) ==
    /\ RecordFile(key) # <<>>
    /\ LET path == RecordFile(key)[1]
       IN  /\ IsIntact(fs.files[path])
           /\ fs' = [fs EXCEPT !.files =
                        (path :> [fs.files[path] EXCEPT
                                     ![3] = [@ EXCEPT ![i] = flip_bit(@, b)]]) @@ @]
    /\ last' = EnvCall("env_tamper_nonce", <<key, i, b>>)
    /\ UNCHANGED <<SECURE_STORAGE, stored, threads>>

\* one bit of a character of the stored ciphertext changes, to the effect
TamperCiphertext(key, effect) ==
    /\ RecordFile(key) # <<>>
    /\ LET path == RecordFile(key)[1]
       IN  /\ IsIntact(fs.files[path])
           /\ fs' = [fs EXCEPT !.files =
                        (path :> [fs.files[path] EXCEPT
                                     ![2] = <<@[1], @[2], effect>>]) @@ @]
    /\ last' = EnvCall("env_tamper_ciphertext", <<key, effect>>)
    /\ UNCHANGED <<SECURE_STORAGE, stored, threads>>

\* the characters and bits of the nonce text, and the effects on the
\* ciphertext text, the environment changes
FlipPlaces == {1, 16} \X (0..7)
FlipEffects == {"symbol", "not_symbol", "json_break", "high_bit"}

K_B == Lit(<<"b">>)
EnvKeys == {K_MAX, K_B}

EnvNext ==
    \/ InitStorage(SetupArgs[1], SetupArgs[2])
    \/ \E nonce_bytes \in Nonces : Store(K_MAX, V_X, nonce_bytes)
    \/ \E key \in EnvKeys : Retrieve(key)
    \/ \E order \in Orders(Entries) : ListKeys(order)
    \/ ClearAll
    \/ DeleteStorageDir
    \/ \E name \in ForeignNames : DropFile(name)
    \/ \E place \in FlipPlaces : TamperNonce(K_MAX, place[1], place[2])
    \/ \E effect \in FlipEffects : TamperCiphertext(K_MAX, effect)

EnvSpec == Init /\ [][EnvNext]_vars

----------------------------------------------------------------------------
(* The commands run concurrently: each is an async fn the runtime runs on  *)
(* its worker threads, and nothing in the manager excludes one from        *)
(* another. A command is atomic up to its first access to the files; from  *)
(* there each call to the file system is a step of its own: exists, then   *)
(* read_to_string or remove_file; File::create, then write_all; exists,    *)
(* then remove_dir_all, then create_dir_all. threads[t] holds the call of  *)
(* thread t: the step it is at (pc), the operation and its arguments, and, *)
(* once it returned, its result; live says that the file the thread opened *)
(* is still the file of that name. stored is not kept here.                *)

\* the calls each thread makes at most
MaxCalls == 2

ConcKeys == {K_MAX, K_EMPTY}
ConcValues == {V_X, V_MAX}

\* the part of a command before its first access to the files
entry(cell, op, key, value) ==
    LET vk == validate_user_input(key, KEY_FIELD, MAX_KEY_LENGTH)
        vv == validate_user_input(value, VALUE_FIELD, MAX_STORAGE_VALUE_LENGTH)
        storage == get_secure_storage(cell)
    IN  IF op # "clear_all" /\ ~vk.ok THEN Err(<<"Invalid storage key">> \o vk.err)
        ELSE IF op = "store" /\ ~vv.ok THEN Err(<<"Invalid storage value">> \o vv.err)
        ELSE IF storage = None THEN Err(NOT_INITIALIZED)
        ELSE IF op # "clear_all" /\ invalid_storage_key(key)
        THEN map_err(Err(INVALID_KEY))
        ELSE Ok(Unit)

\* the first call to the file system each operation makes
first_step(op) ==
    CASE op = "store" -> "file_create"
      [] op = "retrieve" -> "retrieve_exists"
      [] op = "remove" -> "remove_exists"
      [] op = "clear_all" -> "clear_exists"

ConcArgs(th) ==
    CASE th.op = "store" -> <<th.key, th.value>>
      [] th.op = "clear_all" -> <<>>
      [] OTHER -> <<th.key>>

\* thread t returns res
Return(t, res, others) ==
    LET th == [threads[t] EXCEPT !.pc = "idle", !.res = res, !.live = FALSE,
                                 !.calls = @ + 1]
    IN  /\ threads' = [u \in Threads |-> IF u = t THEN th ELSE others[u]]
        /\ last' = [op |-> th.op, args |-> ConcArgs(th), res |-> res, trace |-> <<>>]

\* thread t goes on to the step pc
Goto(t, pc, live, others) ==
    /\ threads' = [u \in Threads |->
                      IF u = t THEN [threads[t] EXCEPT !.pc = pc, !.live = live]
                      ELSE others[u]]
    /\ UNCHANGED last

\* the other threads once the file of key was unlinked: what they opened
\* is no longer the file of that name
unlinked(key) ==
    [u \in Threads |->
        IF threads[u].key = key THEN [threads[u] EXCEPT !.live = FALSE]
        ELSE threads[u]]

\* the other threads once the storage directory was removed
all_unlinked == [u \in Threads |-> [threads[u] EXCEPT !.live = FALSE]]

ConcInit ==
    LET out == init_secure_storage(None, [dirs |-> {ROOT}, files |-> <<>>],
                                   SetupArgs[1], SetupArgs[2])
    IN  /\ SECURE_STORAGE = out.cell
        /\ fs = out.fs
        /\ last = [op |-> "init", args |-> SetupArgs, res |-> out.res, trace |-> <<>>]
        /\ stored = [k \in Keys |-> None]
        /\ threads = [t \in Threads |-> IdleThread]

\* thread t, idle, is called with an operation and its arguments
Enter(t, op, key, value, nonce_bytes) ==
    LET checked == entry(SECURE_STORAGE, op, key, value)
        th == [threads[t] EXCEPT !.op = op, !.key = key, !.value = value,
                                 !.nonce = nonce_bytes]
    IN  /\ threads[t].calls < MaxCalls
        /\ IF checked.ok
           THEN /\ threads' = [threads EXCEPT ![t] = [th EXCEPT !.pc = first_step(op)]]
                /\ UNCHANGED last
           ELSE /\ threads' = [threads EXCEPT
                                  ![t] = [th EXCEPT !.res = checked, !.calls = @ + 1]]
                /\ last' = [op |-> op, args |-> ConcArgs(th), res |-> checked,
                            trace |-> <<>>]
        /\ UNCHANGED <<SECURE_STORAGE, fs, stored>>

CallStore(t, key, value, nonce_bytes) ==
    /\ threads[t].pc = "idle"
    /\ Enter(t, "store", key, value, nonce_bytes)

CallRetrieve(t, key) ==
    /\ threads[t].pc = "idle"
    /\ Enter(t, "retrieve", key, <<>>, <<>>)

CallRemove(t, key) ==
    /\ threads[t].pc = "idle"
    /\ Enter(t, "remove", key, <<>>, <<>>)

CallClearAll(t) ==
    /\ threads[t].pc = "idle"
    /\ Enter(t, "clear_all", <<>>, <<>>, <<>>)

\* store: fs::write opens the file, created or truncated
StoreCreate(t) ==
    LET th == threads[t]
        created == file_create(fs, file_path(SECURE_STORAGE[1], th.key))
    IN  /\ th.pc = "file_create"
        /\ fs' = created.fs
        /\ IF created.res.ok THEN Goto(t, "write_all", TRUE, threads)
           ELSE Return(t, map_err(created.res), threads)
        /\ UNCHANGED <<SECURE_STORAGE, stored>>

\* store: fs::write writes the record from the start of the file it opened
StoreWrite(t) ==
    LET th == threads[t]
        self == SECURE_STORAGE[1]
        json == to_json(encrypt(self, th.value, th.nonce).val)
    IN  /\ th.pc = "write_all"
        /\ fs' = IF th.live THEN write_all(fs, file_path(self, th.key), json).fs
                 ELSE fs
        /\ Return(t, Ok(Unit), threads)
        /\ UNCHANGED <<SECURE_STORAGE, stored>>

\* retrieve: file_path.exists()
RetrieveExists(t) ==
    LET th == threads[t]
    IN  /\ th.pc = "retrieve_exists"
        /\ IF path_exists(fs, file_path(SECURE_STORAGE[1], th.key))
           THEN Goto(t, "read_to_string", FALSE, threads)
           ELSE Return(t, Ok(None), threads)
        /\ UNCHANGED <<SECURE_STORAGE, fs, stored>>

\* retrieve: fs::read_to_string, then deserialize and decrypt
RetrieveRead(t) ==
    LET th == threads[t]
        out == read_record(SECURE_STORAGE[1], fs, th.key, 1)
    IN  /\ th.pc = "read_to_string"
        /\ Return(t, map_err(out.res), threads)
        /\ UNCHANGED <<SECURE_STORAGE, fs, stored>>

\* remove: file_path.exists()
RemoveExists(t) ==
    LET th == threads[t]
    IN  /\ th.pc = "remove_exists"
        /\ IF path_exists(fs, file_path(SECURE_STORAGE[1], th.key))
           THEN Goto(t, "remove_file", FALSE, threads)
           ELSE Return(t, Ok(FALSE), threads)
        /\ UNCHANGED <<SECURE_STORAGE, fs, stored>>

\* remove: fs::remove_file
RemoveUnlink(t) ==
    LET th == threads[t]
        removed == remove_file(fs, file_path(SECURE_STORAGE[1], th.key))
    IN  /\ th.pc = "remove_file"
        /\ fs' = removed.fs
        /\ IF removed.res.ok THEN Return(t, Ok(TRUE), unlinked(th.key))
           ELSE Return(t, map_err(removed.res), threads)
        /\ UNCHANGED <<SECURE_STORAGE, stored>>

\* clear_all: self.storage_dir.exists()
ClearExists(t) ==
    LET th == threads[t]
    IN  /\ th.pc = "clear_exists"
        /\ IF path_exists(fs, StorageDir)
           THEN Goto(t, "remove_dir_all", FALSE, threads)
           ELSE Return(t, Ok(Unit), threads)
        /\ UNCHANGED <<SECURE_STORAGE, fs, stored>>

\* clear_all: fs::remove_dir_all
ClearRemoveDir(t) ==
    LET th == threads[t]
        removed == remove_dir_all(fs, StorageDir)
    IN  /\ th.pc = "remove_dir_all"
        /\ fs' = removed.fs
        /\ IF removed.res.ok THEN Goto(t, "create_dir_all", FALSE, all_unlinked)
           ELSE Return(t, map_err(removed.res), threads)
        /\ UNCHANGED <<SECURE_STORAGE, stored>>

\* clear_all: fs::create_dir_all
ClearCreateDir(t) ==
    LET th == threads[t]
        made == create_dir_all(fs, StorageDir)
    IN  /\ th.pc = "create_dir_all"
        /\ fs' = made.fs
        /\ Return(t, map_err(made.res), threads)
        /\ UNCHANGED <<SECURE_STORAGE, stored>>

ConcNext ==
    \E t \in Threads :
        \/ \E key \in ConcKeys, value \in ConcValues, nonce_bytes \in Nonces :
               CallStore(t, key, value, nonce_bytes)
        \/ \E key \in ConcKeys : CallRetrieve(t, key)
        \/ \E key \in ConcKeys : CallRemove(t, key)
        \/ CallClearAll(t)
        \/ StoreCreate(t)
        \/ StoreWrite(t)
        \/ RetrieveExists(t)
        \/ RetrieveRead(t)
        \/ RemoveExists(t)
        \/ RemoveUnlink(t)
        \/ ClearExists(t)
        \/ ClearRemoveDir(t)
        \/ ClearCreateDir(t)

ConcSpec == ConcInit /\ [][ConcNext]_vars

----------------------------------------------------------------------------
(* What a caller observes in the current state *)

\* a key the validation accepts: non-empty, at most 255 bytes, no null byte
WellFormedKey(k) == k # <<>> /\ len(k) <= MAX_KEY_LENGTH /\ ~contains_nul(k)
WellFormedValue(v) == len(v) <= MAX_STORAGE_VALUE_LENGTH /\ ~contains_nul(v)

ValidKeys == {k \in Keys : WellFormedKey(k)}

RetrieveNow(k) == secure_storage_retrieve(SECURE_STORAGE, fs, k).res
ExistsNow(k) == secure_storage_exists(SECURE_STORAGE, fs, k).res
RemoveNow(k) == secure_storage_remove_encrypted(SECURE_STORAGE, fs, k)

Range(q) == {q[i] : i \in DOMAIN q}

----------------------------------------------------------------------------
(* C1: once the store is initialized, retrieve(k) of a valid key k returns *)
(* Some(v) for the value v of the latest successful store of k when no     *)
(* remove(k) and no clear_all succeeded since, and None when k was never   *)
(* stored or was removed or cleared since.                                 *)

C1_RetrieveLatestStore ==
    Initialized => \A k \in ValidKeys : RetrieveNow(k) = Ok(stored[k])

----------------------------------------------------------------------------
(* C2: remove(k) of a valid key returns true exactly when exists(k) held   *)
(* and leaves no record of k, so that a second remove(k) returns false and *)
(* changes nothing; right after a successful store(k, v) it returns true,  *)
(* right after a remove(k) it returns false.                               *)

C2_RemoveIdempotent ==
    Initialized =>
        \A k \in ValidKeys :
            LET first == RemoveNow(k)
                second == secure_storage_remove_encrypted(SECURE_STORAGE, first.fs, k)
            IN  /\ ExistsNow(k).ok
                /\ first.res = Ok(ExistsNow(k).val)
                /\ secure_storage_exists(SECURE_STORAGE, first.fs, k).res = Ok(FALSE)
                /\ secure_storage_retrieve(SECURE_STORAGE, first.fs, k).res = Ok(None)
                /\ second.res = Ok(FALSE)
                /\ second.fs = first.fs
                /\ (last.op = "store" /\ last.res.ok /\ last.args[1] = k
                        => first.res = Ok(TRUE))
                /\ (last.op = "remove" /\ last.args = <<k>>
                        => last.res.ok /\ first.res = Ok(FALSE))

\* a remove that found the record and deleted it: the next one finds none
C2_Witness ==
    /\ Initialized
    /\ last.op = "remove"
    /\ last.res = Ok(TRUE)
    /\ last.args[1] \in ValidKeys
    /\ RemoveNow(last.args[1]).res = Ok(FALSE)

----------------------------------------------------------------------------
(* C3: right after a successful clear_all, list_keys returns no key and    *)
(* exists(k) is false for every valid key k.                               *)

C3_ClearAllEmpties ==
    (Initialized /\ last.op = "clear_all" /\ last.res.ok) =>
        /\ \A order \in Orders(Entries) :
               secure_storage_list_keys(SECURE_STORAGE, fs, order).res = Ok(<<>>)
        /\ \A k \in ValidKeys : ExistsNow(k) = Ok(FALSE)

----------------------------------------------------------------------------
(* C4: once a manager is installed it is never replaced: an init call in   *)
(* an initialized state returns an error, leaves the manager (its master   *)
(* key and storage directory) and every file as they were, and every       *)
(* valid key retrieves what it retrieved before the call.                  *)

C4_SecondInitRejected ==
    [][Initialized =>
          /\ SECURE_STORAGE' = SECURE_STORAGE
          /\ last'.op = "init" =>
                /\ ~last'.res.ok
                /\ fs'.files = fs.files
                /\ \A k \in ValidKeys :
                       secure_storage_retrieve(SECURE_STORAGE', fs', k).res
                           = RetrieveNow(k)]_vars

\* a rejected init that named another directory and another app than the
\* manager in place, with a record stored before it still retrievable
C4_Witness ==
    /\ Initialized
    /\ last.op = "init"
    /\ ~last.res.ok
    /\ SECURE_STORAGE[1].storage_dir # join(last.args[2], SECURE_STORAGE_DIR)
    /\ SECURE_STORAGE[1].master_key
           # derive_master_key(last.args[1], HOSTNAME, USERNAME)
    /\ RetrieveNow(K_MAX) = Ok(Some(V_X))

----------------------------------------------------------------------------
(* C5: a command invoked before init fails and changes nothing on disk.    *)

InitialFs == [dirs |-> {ROOT}, files |-> <<>>]

Commands ==
    {"store", "retrieve", "remove", "exists", "store_batch", "retrieve_batch",
     "list_keys", "clear_all"}

BeforeInit == ~Initialized /\ last.op \in Commands

\* C5 as claimed: before init every command fails with the not-initialized
\* error, whatever its arguments
C5_NotInitializedWhateverArgs ==
    BeforeInit => last.res = Err(NOT_INITIALIZED) /\ fs = InitialFs

Rejects(s, max) == len(s) > max \/ contains_nul(s)

\* what the boundary rejects before it looks for the manager: "" when the
\* arguments pass
RejectedArgument ==
    CASE last.op = "store" ->
             IF Rejects(last.args[1], MAX_KEY_LENGTH) THEN "Invalid storage key"
             ELSE IF Rejects(last.args[2], MAX_STORAGE_VALUE_LENGTH)
             THEN "Invalid storage value"
             ELSE ""
      [] last.op \in {"retrieve", "remove", "exists"} ->
             IF Rejects(last.args[1], MAX_KEY_LENGTH) THEN "Invalid storage key"
             ELSE ""
      [] last.op \in {"store_batch", "retrieve_batch"} ->
             IF Len(last.args[1]) > MAX_BATCH_ITEMS
             THEN "Batch too large (max 100 items)"
             ELSE ""
      [] OTHER -> ""

\* C5 as amended: before init a command whose arguments pass the boundary's
\* own validation (key at most 255 bytes without null byte, value at most
\* 8192 bytes without null byte, batch of at most 100 items) fails with the
\* not-initialized error, a command whose arguments do not pass it fails
\* with the validation error instead, and nothing on disk changes
C5_NotInitializedAfterValidation ==
    BeforeInit =>
        /\ fs = InitialFs
        /\ ~last.res.ok
        /\ IF RejectedArgument = "" THEN last.res = Err(NOT_INITIALIZED)
           ELSE last.res.err[1] = RejectedArgument

C5_Witness ==
    /\ BeforeInit
    /\ last.op = "store"
    /\ last.args = <<K_OVER, V_X>>
    /\ last.res.err[1] = "Invalid storage key"

----------------------------------------------------------------------------
(* C6: the commands that take a key reject an empty or oversized key       *)
(* without encrypting and without touching the file system.                *)

KeyCommands == {"store", "retrieve", "remove", "exists"}

BadKey(k) == k = <<>> \/ len(k) > MAX_KEY_LENGTH

Steps(trace) == {trace[j][2] : j \in DOMAIN trace}

WorkSteps ==
    {"encrypt", "to_json", "fs_write", "fs_exists", "fs_read", "from_json",
     "decrypt", "fs_remove"}

InvalidKeyError(res) ==
    /\ ~res.ok
    /\ \/ res.err[1] = "Invalid storage key"
       \/ res.err = to_string(INVALID_KEY)

\* C6 as claimed: the key is checked first, before the value
C6_KeyCheckedBeforeValue ==
    (Initialized /\ last.op \in KeyCommands /\ BadKey(last.args[1])) =>
        /\ InvalidKeyError(last.res)
        /\ Steps(last.trace) \cap (WorkSteps \cup {"validate_value"}) = {}

\* C6 as amended
C6_BadKeyRejected ==
    /\ (Initialized /\ last.op \in KeyCommands /\ BadKey(last.args[1])) =>
          /\ Steps(last.trace) \cap WorkSteps = {}
          /\ IF len(last.args[1]) > MAX_KEY_LENGTH
             THEN /\ last.res = Err(<<"Invalid storage key", KEY_FIELD,
                                      "exceeds maximum length">>)
                  /\ last.trace = <<Step(1, "validate_key")>>
             ELSE IF last.op = "store" /\ ~WellFormedValue(last.args[2])
             THEN /\ last.res.ok = FALSE
                  /\ last.res.err[1] = "Invalid storage value"
             ELSE /\ last.res = Err(to_string(INVALID_KEY))
                  /\ last.trace[Len(last.trace)] = Step(1, "key_check")
    /\ Initialized =>
          /\ \A a \in StoreArgs, n \in Nonces :
                 BadKey(a[1]) =>
                     secure_storage_store(SECURE_STORAGE, fs, a[1], a[2], n).fs = fs
          /\ \A k \in ProbeKeys :
                 BadKey(k) =>
                     /\ secure_storage_retrieve(SECURE_STORAGE, fs, k).fs = fs
                     /\ RemoveNow(k).fs = fs
                     /\ secure_storage_exists(SECURE_STORAGE, fs, k).fs = fs
    /\ (Initialized /\ last.op \in {"store_batch", "retrieve_batch"}
           /\ Len(last.args[1]) <= MAX_BATCH_ITEMS) =>
          \A j \in DOMAIN last.args[1] :
              LET key == IF last.op = "store_batch" THEN last.args[1][j][1]
                         ELSE last.args[1][j]
              IN  BadKey(key) =>
                      /\ ~last.res.ok
                      /\ {last.trace[t][2] : t \in {u \in DOMAIN last.trace :
                                                      last.trace[u][1] = j}}
                             \cap WorkSteps = {}

C6_Witness ==
    /\ Initialized
    /\ last.op = "store"
    /\ last.args = <<K_EMPTY, V_OVER>>
    /\ last.res.err[1] = "Invalid storage value"

----------------------------------------------------------------------------
(* C7: validate fails with the too-long error exactly when the input has   *)
(* more than max_length bytes, fails on a null byte whatever the length,   *)
(* and succeeds otherwise; store accepts a 255-byte key with an 8192-byte  *)
(* value and rejects a 256-byte key and an 8193-byte value.                *)

TooLong(field) == Err(<<field, "exceeds maximum length">>)

C7_ValidationBounds ==
    /\ \A input \in Keys \cup Values :
           \A max \in {1, MAX_KEY_LENGTH, MAX_STORAGE_VALUE_LENGTH} :
               LET r == validate_user_input(input, "field", max)
               IN  /\ r = TooLong("field") <=> len(input) > max
                   /\ contains_nul(input) => ~r.ok
                   /\ (len(input) <= max /\ ~contains_nul(input)) => r = Ok(Unit)
    /\ validate_user_input(K_MAX, KEY_FIELD, 255) = Ok(Unit)
    /\ validate_user_input(K_OVER, KEY_FIELD, 255) = TooLong(KEY_FIELD)
    /\ validate_user_input(V_MAX, VALUE_FIELD, 8192) = Ok(Unit)
    /\ validate_user_input(V_OVER, VALUE_FIELD, 8192) = TooLong(VALUE_FIELD)
    /\ (Initialized /\ last.op = "store") =>
          /\ last.args = <<K_MAX, V_MAX>> => last.res = Ok(Unit)
          /\ last.args[1] = K_OVER =>
                 last.res = Err(<<"Invalid storage key">> \o TooLong(KEY_FIELD).err)
          /\ last.args = <<K_MAX, V_OVER>> =>
                 last.res = Err(<<"Invalid storage value">> \o TooLong(VALUE_FIELD).err)
          /\ last.args[1] = K_NUL => ~last.res.ok

C7_Witness ==
    /\ Initialized
    /\ last.op = "store"
    /\ last.args = <<K_MAX, V_MAX>>
    /\ last.res = Ok(Unit)
    /\ RetrieveNow(K_MAX) = Ok(Some(V_MAX))

----------------------------------------------------------------------------
(* C8: store_batch is the single stores of its items in list order up to   *)
(* the first one that fails: it then returns an error, the items before    *)
(* that one stay stored, the failing item and the items after it are not   *)
(* written.                                                                *)

\* the single store commands of the items from the i-th on, one after the
\* other, up to the first that fails (failed = 0 when none does)
RECURSIVE StoreEach(_, _, _, _, _)
StoreEach(cell, f, items, nonces, i) ==
    IF i > Len(items) THEN [fs |-> f, failed |-> 0]
    ELSE LET r == secure_storage_store(cell, f, items[i][1], items[i][2], nonces[i])
         IN  IF ~r.res.ok THEN [fs |-> f, failed |-> i]
             ELSE StoreEach(cell, r.fs, items, nonces, i + 1)

\* an item no store accepts: an invalid key or value, or a key that names
\* a file in a directory that does not exist
Unstorable(item) ==
    \/ ~WellFormedKey(item[1])
    \/ ~WellFormedValue(item[2])
    \/ item[1] = K_NESTED

FirstUnstorable(items) ==
    IF \E i \in DOMAIN items : Unstorable(items[i])
    THEN CHOOSE i \in DOMAIN items :
             /\ Unstorable(items[i])
             /\ \A j \in 1..(i - 1) : ~Unstorable(items[j])
    ELSE Len(items) + 1

\* the value the items before the n-th leave for the key of the i-th
BatchValue(items, n, i) ==
    LET j == CHOOSE j \in 1..(n - 1) :
                 /\ items[j][1] = items[i][1]
                 /\ \A m \in (j + 1)..(n - 1) : items[m][1] # items[i][1]
    IN  items[j][2]

C8_BatchFailFast ==
    /\ Initialized =>
          \A items \in Batches, nonces \in NonceDraws :
              Len(items) <= MAX_BATCH_ITEMS =>
                  LET out == secure_storage_store_batch(SECURE_STORAGE, fs, items, nonces)
                      each == StoreEach(SECURE_STORAGE, fs, items, nonces, 1)
                  IN  /\ out.fs = each.fs
                      /\ out.res.ok <=> each.failed = 0
                      /\ each.failed = IF FirstUnstorable(items) > Len(items) THEN 0
                                       ELSE FirstUnstorable(items)
    /\ (Initialized /\ last.op = "store_batch"
           /\ Len(last.args[1]) <= MAX_BATCH_ITEMS) =>
          LET items == last.args[1]
              n == FirstUnstorable(items)
          IN  /\ last.res.ok <=> n > Len(items)
              /\ \A i \in 1..(n - 1) :
                     RetrieveNow(items[i][1]) = Ok(Some(BatchValue(items, n, i)))
              /\ n <= Len(items) => last.res.err[2] = items[n][1]
              /\ items = <<<<K_MAX, V_X>>, <<K_EMPTY, V_X>>>> =>
                     ~last.res.ok /\ ExistsNow(K_MAX) = Ok(TRUE)

C8_Witness ==
    /\ Initialized
    /\ last.op = "store_batch"
    /\ last.args[1] = <<<<K_MAX, V_X>>, <<K_EMPTY, V_X>>>>
    /\ ~last.res.ok
    /\ ExistsNow(K_MAX) = Ok(TRUE)
    /\ RetrieveNow(K_MAX) = Ok(Some(V_X))

----------------------------------------------------------------------------
(* C9: once the store is initialized, retrieve_batch of at most 100 keys   *)
(* is the single retrieves of its keys: when each of them succeeds, the    *)
(* mapping it returns has exactly the distinct keys of the list, each with *)
(* the result of its retrieve in the same state; when one fails, it        *)
(* returns an error; it changes no record.                                 *)

C9_RetrieveBatchIsRetrieves ==
    /\ Initialized =>
          \A keys \in KeyLists :
              Len(keys) <= MAX_BATCH_ITEMS =>
                  LET out == secure_storage_retrieve_batch(SECURE_STORAGE, fs, keys)
                  IN  /\ out.fs = fs
                      /\ IF \A i \in DOMAIN keys : RetrieveNow(keys[i]).ok
                         THEN /\ out.res.ok
                              /\ DOMAIN out.res.val = Range(keys)
                              /\ \A i \in DOMAIN keys :
                                     out.res.val[keys[i]] = RetrieveNow(keys[i]).val
                         ELSE ~out.res.ok
    /\ (Initialized /\ last.op = "retrieve_batch" /\ last.res.ok) =>
          /\ DOMAIN last.res.val = Range(last.args[1])
          /\ \A k \in DOMAIN last.res.val : Ok(last.res.val[k]) = RetrieveNow(k)

\* a batch that found the record of one key and none for another
C9_Witness ==
    /\ Initialized
    /\ last.op = "retrieve_batch"
    /\ last.res.ok
    /\ \E k1, k2 \in DOMAIN last.res.val :
           last.res.val[k1] = None /\ last.res.val[k2] = Some(V_X)

----------------------------------------------------------------------------
(* C10: list_keys returns each key once, and a valid key is listed exactly *)
(* when exists reports it.                                                 *)

C10_ListKeysMatchesExists ==
    Initialized =>
        \A order \in Orders(Entries) :
            LET listed == secure_storage_list_keys(SECURE_STORAGE, fs, order).res
            IN  /\ listed.ok
                /\ \A a, b \in DOMAIN listed.val : a # b => listed.val[a] # listed.val[b]
                /\ \A k \in ValidKeys :
                       k \in Range(listed.val) <=> ExistsNow(k) = Ok(TRUE)

----------------------------------------------------------------------------
(* C11: a record whose stored ciphertext or stored nonce differs in one    *)
(* bit from what encrypt produced never decrypts: decrypt of it, and       *)
(* retrieve of its key, return an error (the authentication error of the   *)
(* cipher or the decoding error before it) and no plaintext.               *)

Tampers == {"env_tamper_nonce", "env_tamper_ciphertext"}

C11_ChangedRecordFails ==
    last.op \in Tampers =>
        LET k == last.args[1]
            content == fs.files[RecordFile(k)[1]]
            r == RetrieveNow(k)
            d == decrypt(SECURE_STORAGE[1],
                         [ciphertext |-> content[2], nonce |-> content[3],
                          version |-> content[4]])
        IN  /\ ~IsIntact(content)
            /\ ~r.ok /\ ~IsPanic(r)
            /\ ~d.ok /\ ~IsPanic(d)

----------------------------------------------------------------------------
(* C12: for every string s of at most 8192 bytes and every manager,        *)
(* decrypt of the record encrypt made of s returns s, and that record has  *)
(* version 1; so the file a successful store wrote holds a record of       *)
(* version 1 that decrypts to the value stored.                            *)

\* the managers new can build, the one of the cell among them
Managers ==
    {SECURE_STORAGE[1]} \cup
    {new(fs, a[1], a[2]).res.val : a \in {b \in InitArgs : new(fs, b[1], b[2]).res.ok}}

Plaintexts == {v \in Values \cup {<<>>} : len(v) <= MAX_STORAGE_VALUE_LENGTH}

C12_DecryptInvertsEncrypt ==
    Initialized =>
        /\ \A self \in Managers, s \in Plaintexts, nonce_bytes \in Nonces :
               LET encrypted == encrypt(self, s, nonce_bytes)
               IN  /\ encrypted.ok
                   /\ encrypted.val.version = 1
                   /\ decrypt(self, encrypted.val) = Ok(s)
        /\ last.op = "store" /\ last.res.ok =>
               LET path == file_path(SECURE_STORAGE[1], last.args[1])
                   record == from_json(read_to_string(fs, path).val)
               IN  /\ record.ok
                   /\ record.val.version = 1
                   /\ decrypt(SECURE_STORAGE[1], record.val) = Ok(last.args[2])

C12_Witness ==
    /\ Initialized
    /\ last.op = "store"
    /\ last.res.ok
    /\ last.args = <<K_MAX, V_MAX>>
    /\ RetrieveNow(K_MAX) = Ok(Some(V_MAX))
    /\ Cardinality(Managers) = 2

----------------------------------------------------------------------------
(* C13: a manager constructed later with the same app name, on the same    *)
(* host name and user name, has the master key of the manager of the cell, *)
(* whatever the files are by then and whatever its data directory: each    *)
(* decrypts what the other encrypted, and with the same data directory it  *)
(* retrieves for every key what the manager of the cell retrieves.         *)

DataDirs == {a[2] : a \in InitArgs}

C13_SameIdentitySameKey ==
    Initialized =>
        \A dir \in DataDirs :
            LET self == SECURE_STORAGE[1]
                built == new(fs, SetupArgs[1], dir)
                other == built.res.val
            IN  /\ built.res.ok
                /\ other.master_key = self.master_key
                /\ \A s \in Plaintexts, nonce_bytes \in Nonces :
                       /\ decrypt(other, encrypt(self, s, nonce_bytes).val) = Ok(s)
                       /\ decrypt(self, encrypt(other, s, nonce_bytes).val) = Ok(s)
                /\ dir = SetupArgs[2] =>
                       \A k \in ProbeKeys :
                           retrieve(other, built.fs, k, 0).res = retrieve(self, fs, k, 0).res

C13_Witness ==
    /\ Initialized
    /\ last.op = "store"
    /\ last.res.ok
    /\ LET built == new(fs, SetupArgs[1], SetupArgs[2])
       IN  /\ built.res.ok
           /\ retrieve(built.res.val, built.fs, last.args[1], 0).res
                  = Ok(Some(last.args[2]))
    /\ new(fs, SetupArgs[1], OtherArgs[2]).res.ok

----------------------------------------------------------------------------
(* C14: a manager of the same app name whose host name or user name is not *)
(* that of the manager that wrote a record derives another master key and  *)
(* does not get the plaintext of the record: its retrieve fails.           *)

\* the writer's identity, one whose names are cut at another place, and
\* one with another host name
Identities ==
    {<<HOSTNAME, USERNAME>>,
     <<Lit(<<"h", "o", "s">>), Lit(<<"t", "u", "s", "e", "r">>)>>,
     <<Lit(<<"h", "o", "s", "t", "2">>), USERNAME>>}

\* the manager of the cell as constructed under the identity id
ManagerOf(id) ==
    [SECURE_STORAGE[1] EXCEPT
         !.master_key = derive_master_key(SetupArgs[1], id[1], id[2])]

C14_ChangedIdentityFails ==
    Initialized /\ last.op = "store" /\ last.res.ok =>
        \A id \in Identities \ {<<HOSTNAME, USERNAME>>} :
            /\ ManagerOf(id).master_key # SECURE_STORAGE[1].master_key
            /\ ~retrieve(ManagerOf(id), fs, last.args[1], 0).res.ok

\* the identity with another host name does fail to read the record
C14_OtherHostFails ==
    Initialized /\ last.op = "store" /\ last.res.ok =>
        LET reader == ManagerOf(<<Lit(<<"h", "o", "s", "t", "2">>), USERNAME>>)
        IN  /\ reader.master_key # SECURE_STORAGE[1].master_key
            /\ retrieve(reader, fs, last.args[1], 0).res
                   = Err(<<"DecryptionFailed", "Decryption failed">>)

----------------------------------------------------------------------------
(* C15: after a clear_all that returned success the storage directory      *)
(* exists and has no entry, whatever its state before the call, and a      *)
(* store of a valid key and value made then succeeds.                      *)

C15_ClearAllLeavesEmptyDir ==
    Initialized /\ last.op = "clear_all" /\ last.res.ok =>
        /\ StorageDir \in fs.dirs
        /\ read_dir(fs, StorageDir) = Ok({})
        /\ \A nonce_bytes \in Nonces :
               secure_storage_store(SECURE_STORAGE, fs, K_MAX, V_X, nonce_bytes).res.ok

----------------------------------------------------------------------------
(* C16: when each of the two threads has made one call, a store on the     *)
(* same key, and both have returned, both returned success and retrieve of *)
(* the key returns Some of the value of one of the two stores: no error,   *)
(* no None, no mixture of the two records.                                 *)

BothStored(key) ==
    \A t \in Threads :
        /\ threads[t].pc = "idle"
        /\ threads[t].calls = 1
        /\ threads[t].op = "store"
        /\ threads[t].key = key

C16_ConcurrentStoresOneWins ==
    BothStored(K_MAX) =>
        /\ \A t \in Threads : threads[t].res = Ok(Unit)
        /\ RetrieveNow(K_MAX) \in {Ok(Some(threads[t].value)) : t \in Threads}

----------------------------------------------------------------------------
(* C20: a remove or a retrieve that ran while another thread removed the   *)
(* record or cleared the store returns as it does alone: remove returns    *)
(* true or false, retrieve returns Some(v) or None, and none of them       *)
(* returns the error of a file that is not there.                          *)

NOT_FOUND_MESSAGE == map_err(Err(IO_NOT_FOUND))

C20_AbsenceIsNoError ==
    \A t \in Threads :
        (/\ threads[t].pc = "idle"
         /\ threads[t].calls > 0
         /\ threads[t].op \in {"remove", "retrieve"}
         /\ threads[t].key = K_MAX)
        => threads[t].res # NOT_FOUND_MESSAGE

----------------------------------------------------------------------------
(* C17: list_keys returns no error. Its result is the names, without the   *)
(* suffix, of the entries of the storage directory that end in .enc: the   *)
(* other entries leave it as it is without them; and it is the empty list  *)
(* when the storage directory cannot be read.                              *)

\* the file system without the entries of the storage directory that do
\* not end in .enc
WithoutOthers ==
    LET keep == {p \in DOMAIN fs.files :
                    parent(p) = StorageDir => ends_with_enc(p[Len(p)])}
    IN  [fs EXCEPT !.files = [p \in keep |-> fs.files[p]]]

----------------------------------------------------------------------------
(* C18: every encrypt draws its nonce from the random source and seals     *)
(* under it; as stated, no two records under one master key carry the same *)
(* nonce.                                                                  *)

RecordPaths == {p \in DOMAIN fs.files : IsRecord(fs.files[p])}

C18_NoNonceTwice ==
    \A p, q \in RecordPaths : p # q => fs.files[p][3] # fs.files[q][3]

(* C18, as the code has it: the record of an encrypt carries the 12 bytes  *)
(* drawn for that call, whatever the plaintext, and is sealed under them;  *)
(* two encryptions of one plaintext differ in nonce and in ciphertext      *)
(* exactly when their draws differ. Every record file holds such a record. *)

C18_RecordCarriesItsDraw ==
    Initialized =>
        LET self == SECURE_STORAGE[1]
        IN  /\ \A s \in Plaintexts, n \in Nonces :
                   LET e == encrypt(self, s, n).val
                   IN  /\ b64_decode_bytes(e.nonce) = Ok(n)
                       /\ b64_decode(e.ciphertext) = Ok(aead_encrypt(self.master_key, n, s))
            /\ \A s \in Plaintexts, n1, n2 \in Nonces :
                   LET e1 == encrypt(self, s, n1).val
                       e2 == encrypt(self, s, n2).val
                   IN  /\ n1 # n2 <=> e1.nonce # e2.nonce
                       /\ n1 # n2 <=> e1.ciphertext # e2.ciphertext
            /\ \A p \in RecordPaths :
                   \E n \in Nonces :
                       /\ fs.files[p][3] = b64_encode_bytes(n)
                       /\ b64_decode(fs.files[p][2]).val[3] = n

C18_Witness ==
    /\ Initialized
    /\ last.op = "store"
    /\ \E p, q \in RecordPaths :
           /\ p # q
           /\ b64_decode(fs.files[p][2]).val[4] = b64_decode(fs.files[q][2]).val[4]
           /\ fs.files[p][3] # fs.files[q][3]
           /\ fs.files[p][2] # fs.files[q][2]

----------------------------------------------------------------------------
(* C19: every file the operations leave is a file directly inside the      *)
(* storage directory <app-data-dir>/secure_storage, and a successful store *)
(* of a key leaves its record there under the name <key>.enc.              *)

C19_RecordsInsideStorageDir ==
    Initialized =>
        /\ \A p \in DOMAIN fs.files : parent(p) = StorageDir
        /\ last.op = "store" /\ last.res.ok =>
               Append(StorageDir, enc_file_name(last.args[1])) \in DOMAIN fs.files

----------------------------------------------------------------------------
(* C21: decrypt, and retrieve of a record file of any content, return a    *)
(* value and never panic; and for a record whose ciphertext or nonce is    *)
(* not valid base64, or whose nonce decodes to another length than 12      *)
(* bytes, the value is a DecryptionFailed or InvalidFormat error, never a  *)
(* plaintext.                                                              *)

\* the record the file of a key deserializes to, <<record>> or <<>>
RecordOf(key) ==
    IF RecordFile(key) = <<>> THEN <<>>
    ELSE LET json == read_to_string(fs, RecordFile(key)[1])
         IN  IF ~json.ok \/ ~from_json(json.val).ok THEN <<>>
             ELSE <<from_json(json.val).val>>

Malformed(encrypted_data) ==
    \/ ~b64_decode(encrypted_data.ciphertext).ok
    \/ ~b64_decode_bytes(encrypted_data.nonce).ok
    \/ Len(b64_decode_bytes(encrypted_data.nonce).val) # NONCE_LENGTH

DecryptionOrFormatError(res) ==
    ~res.ok /\ res.err[1] \in {"DecryptionFailed", "InvalidFormat"}

C21_MalformedRecordIsAnError ==
    \A k \in EnvKeys :
        RecordFile(k) # <<>> =>
            LET r == retrieve(SECURE_STORAGE[1], fs, k, 1).res
            IN  /\ ~IsPanic(r)
                /\ RecordOf(k) # <<>> =>
                       LET d == decrypt(SECURE_STORAGE[1], RecordOf(k)[1])
                       IN  /\ ~IsPanic(d)
                           /\ Malformed(RecordOf(k)[1]) =>
                                  /\ DecryptionOrFormatError(d)
                                  /\ DecryptionOrFormatError(r)

----------------------------------------------------------------------------
(* C22: store(k, v) and remove(k) leave the result of exists(k') and of    *)
(* retrieve(k') as it was, for every valid key k' other than k; retrieve,  *)
(* exists and list_keys leave every file as it was; and exists does not    *)
(* decrypt: it returns true for every record file, whether it decrypts or  *)
(* not.                                                                    *)

\* the store over a few keys, one of them the key b behind a "." segment
K_DOT_B == Lit(<<".", "/", "b">>)
FrameKeys == {K_MAX, K_B, K_DOT_B}

FrameNext ==
    \/ InitStorage(SetupArgs[1], SetupArgs[2])
    \/ \E key \in FrameKeys, value \in ConcValues, nonce_bytes \in Nonces :
           Store(key, value, nonce_bytes)
    \/ \E key \in FrameKeys : Remove(key)
    \/ \E key \in FrameKeys : Retrieve(key)
    \/ \E key \in FrameKeys : Exists(key)
    \/ \E order \in Orders(Entries) : ListKeys(order)
    \/ \E effect \in FlipEffects : TamperCiphertext(K_B, effect)

FrameSpec == Init /\ [][FrameNext]_vars

\* what exists and retrieve of a key return on a file system
Observed(f, k) ==
    <<secure_storage_exists(SECURE_STORAGE, f, k).res,
      secure_storage_retrieve(SECURE_STORAGE, f, k).res>>

ReadOnly == {"retrieve", "exists", "list_keys"}

OtherKeysUntouched ==
    /\ last'.op \in {"store", "remove"} =>
           \A k \in FrameKeys \ {last'.args[1]} :
               WellFormedKey(k) /\ WellFormedKey(last'.args[1]) =>
                   Observed(fs', k) = Observed(fs, k)
    /\ last'.op \in ReadOnly => fs' = fs
    /\ last'.op = "exists" /\ Initialized =>
           /\ last'.res = Ok(RecordFile(last'.args[1]) # <<>>)
           /\ \A i \in DOMAIN last'.trace : last'.trace[i][2] # "decrypt"

C22_OtherKeysUntouched == [][OtherKeysUntouched]_vars

====
